---------------------------- MODULE Spec2Model ----------------------------
(***************************************************************************)
(* Dice arithmetic simulator with a gzip-compressed result cache           *)
(* (src/index.js, lines 1-266: simulateDiceTargets and its example call).  *)
(*                                                                         *)
(* Numbers are JavaScript doubles in the source.  Here a number is an      *)
(* exact rational <<n, d>> in lowest terms with d > 0; <<1,0>>, <<-1,0>>   *)
(* and <<0,0>> stand for Infinity, -Infinity and NaN, which is what a      *)
(* division by zero yields in JavaScript.  Rounding of doubles is not      *)
(* modelled.  A string is the sequence of its UTF-16 code units.           *)
(***************************************************************************)
EXTENDS Integers, Sequences, FiniteSets, TLC

(***************************************************************************)
(* Bounds of the model                                                     *)
(***************************************************************************)
\* dice rolled in one run, over all its target sets, dice counts and trials
MaxRolled == 3
\* process runs against the same cache file (a run, then a restart)
MaxRuns == 2
\* fractional digits kept when a number is written in decimal
FracDigits == 6
\* entry count from which the streaming save is chosen; 4_000_000 in the source
StreamThreshold == 30
\* largest dice count of a run (xMax: 3 in the example call)
MaxDice == 3
\* the die faces rollDice draws from in the model (1..6 in the source)
Faces == {2, 5}

(***************************************************************************)
(* Numbers                                                                 *)
(***************************************************************************)
Abs(n) == IF n < 0 THEN -n ELSE n

Sgn(n) == IF n < 0 THEN -1 ELSE IF n > 0 THEN 1 ELSE 0

RECURSIVE Gcd(_, _)
Gcd(a, b) == IF b = 0 THEN a ELSE Gcd(b, a % b)

\* the number n/d; d = 0 gives Infinity, -Infinity or NaN
Num(n, d) ==
  IF d = 0 THEN <<Sgn(n), 0>>
  ELSE LET g == Gcd(Abs(n), Abs(d))
           s == IF d < 0 THEN -1 ELSE 1
       IN <<(s * n) \div g, (s * d) \div g>>

Whole(k) == <<k, 1>>

\* a + b, a - b, a * b, a / b on doubles
Add(a, b) == Num(a[1] * b[2] + b[1] * a[2], a[2] * b[2])
Sub(a, b) == Num(a[1] * b[2] - b[1] * a[2], a[2] * b[2])
Mul(a, b) == Num(a[1] * b[1], a[2] * b[2])
Div(a, b) == Num(a[1] * b[2], a[2] * b[1])

\* x !== 0
NonZero(a) == ~(a[1] = 0 /\ a[2] # 0)

IsFinite(a) == a[2] # 0

\* 1 / 1e-9
TolInv == 1000000000

\* Math.abs(v - target) < 1e-9, target an integer
CloseTo(v, target) ==
  /\ IsFinite(v)
  /\ LET diff == Abs(v[1] - target * v[2])
     IN \/ diff = 0
        \/ (diff <= v[2] \div TolInv /\ diff * TolInv < v[2])

(***************************************************************************)
(* Number -> string, and the default sort of numbers.slice().sort()        *)
(***************************************************************************)
RECURSIVE DigitsOf(_)
DigitsOf(n) == IF n < 10 THEN <<48 + n>> ELSE DigitsOf(n \div 10) \o <<48 + (n % 10)>>

RECURSIVE FracOf(_, _, _)
FracOf(r, d, k) ==
  IF r = 0 \/ k = 0 THEN <<>>
  ELSE <<48 + ((10 * r) \div d)>> \o FracOf((10 * r) % d, d, k - 1)

\* String(v): sign, integer digits, and the fraction when there is one
NumStr(v) ==
  IF v[2] = 0 THEN (IF v[1] = 0 THEN <<78>> ELSE IF v[1] < 0 THEN <<45, 73>> ELSE <<73>>)
  ELSE LET a == Abs(v[1])
           ip == a \div v[2]
           fr == a % v[2]
       IN (IF v[1] < 0 THEN <<45>> ELSE <<>>)
            \o DigitsOf(ip)
            \o (IF fr = 0 THEN <<>> ELSE <<46>> \o FracOf(fr, v[2], FracDigits))

\* s < t, comparing code units
RECURSIVE StrLess(_, _)
StrLess(s, t) ==
  IF t = <<>> THEN FALSE
  ELSE IF s = <<>> THEN TRUE
  ELSE IF s[1] # t[1] THEN s[1] < t[1]
  ELSE StrLess(Tail(s), Tail(t))

\* the comparison Array.prototype.sort uses when given no comparator
DefaultLess(a, b) == StrLess(NumStr(a), NumStr(b))

RECURSIVE InsertSorted(_, _)
InsertSorted(sorted, v) ==
  IF sorted = <<>> THEN <<v>>
  ELSE IF DefaultLess(v, sorted[1]) THEN <<v>> \o sorted
  ELSE <<sorted[1]>> \o InsertSorted(Tail(sorted), v)

\* numbers.slice().sort()
RECURSIVE SortDefault(_)
SortDefault(numbers) ==
  IF numbers = <<>> THEN <<>>
  ELSE InsertSorted(SortDefault(SubSeq(numbers, 1, Len(numbers) - 1)), numbers[Len(numbers)])

\* strs.join(",")
RECURSIVE Join(_)
Join(strs) ==
  IF strs = <<>> THEN <<>>
  ELSE IF Len(strs) = 1 THEN strs[1]
  ELSE strs[1] \o <<44>> \o Join(Tail(strs))

\* the key without the target: sorted.join(",") alone
CacheKeyNoTarget(numbers, target) ==
  Join([i \in 1..Len(numbers) |-> NumStr(SortDefault(numbers)[i])])

\* sorted.join(",") + "|" + target
CacheKey(numbers, target) ==
  LET sorted == SortDefault(numbers)
  IN Join([i \in 1..Len(sorted) |-> NumStr(sorted[i])]) \o <<124>> \o NumStr(Whole(target))

(***************************************************************************)
(* Maps (key -> value)                                                     *)
(***************************************************************************)
EmptyMap == <<>>

MapSet(m, k, v) == [x \in (DOMAIN m) \cup {k} |-> IF x = k THEN v ELSE m[x]]

MapHas(m, k) == k \in DOMAIN m

(***************************************************************************)
(* canMakeTarget (lines 138-175)                                           *)
(***************************************************************************)
\* numbers.filter((_, idx) => idx !== i && idx !== j)
RECURSIVE Filter(_, _, _, _)
Filter(numbers, i, j, idx) ==
  IF idx > Len(numbers) THEN <<>>
  ELSE (IF idx # i /\ idx # j THEN <<numbers[idx]>> ELSE <<>>)
         \o Filter(numbers, i, j, idx + 1)

\* nextValues with the two tests reversed (=== for !==): a quotient only by zero
nextValuesTestsReversed(a, b) ==
  <<Add(a, b), Sub(a, b), Sub(b, a), Mul(a, b)>>
    \o (IF ~NonZero(b) THEN <<Div(a, b)>> ELSE <<>>)
    \o (IF ~NonZero(a) THEN <<Div(b, a)>> ELSE <<>>)

\* nextValues: [a + b, a - b, b - a, a * b], then a / b and b / a when defined
nextValues(a, b) ==
  <<Add(a, b), Sub(a, b), Sub(b, a), Mul(a, b)>>
    \o (IF NonZero(b) THEN <<Div(a, b)>> ELSE <<>>)
    \o (IF NonZero(a) THEN <<Div(b, a)>> ELSE <<>>)

\* PairCalls taking each pair once (j from i + 1) with a - b and a / b only
PairCallsOnce(numbers, i, j) ==
  IF i >= j THEN <<>>
  ELSE LET rest == Filter(numbers, i, j, 1)
           a == numbers[i]
           b == numbers[j]
           vals == <<Add(a, b), Sub(a, b), Mul(a, b)>>
                     \o (IF NonZero(b) THEN <<Div(a, b)>> ELSE <<>>)
       IN [k \in 1..Len(vals) |-> rest \o <<vals[k]>>]

\* PairCalls passing [...rest] alone, the derived value left out
PairCallsRestOnly(numbers, i, j) ==
  IF i = j THEN <<>>
  ELSE LET rest == Filter(numbers, i, j, 1)
           vals == nextValues(numbers[i], numbers[j])
       IN [k \in 1..Len(vals) |-> rest]

\* the argument lists [...rest, val] of one (i, j) pair, in the order tried
PairCalls(numbers, i, j) ==
  IF i = j THEN <<>>
  ELSE LET rest == Filter(numbers, i, j, 1)
           vals == nextValues(numbers[i], numbers[j])
       IN [k \in 1..Len(vals) |-> rest \o <<vals[k]>>]

\* the argument lists of the two nested loops over i and j, in the order tried
RECURSIVE LoopCalls(_, _, _)
LoopCalls(numbers, i, j) ==
  IF i > Len(numbers) THEN <<>>
  ELSE IF j > Len(numbers) THEN LoopCalls(numbers, i + 1, 1)
  ELSE PairCalls(numbers, i, j) \o LoopCalls(numbers, i, j + 1)

\* what one call is seen to do: its arguments, the caches it met, its outcome
Observed(numbers, target, memo, gc, depth, out) ==
  LET key == CacheKey(numbers, target)
  IN [numbers |-> numbers,
      key |-> key,
      depth |-> depth,
      inStore |-> MapHas(gc, key),
      inMemo |-> MapHas(memo, key),
      stored |-> IF MapHas(gc, key) THEN gc[key] ELSE FALSE,
      result |-> out.result,
      threw |-> out.threw,
      subcalls |-> Len(out.log),
      unchanged |-> (out.memo = memo /\ out.gc = gc)]

RECURSIVE canMakeTarget(_, _, _, _, _)
RECURSIVE TryCalls(_, _, _, _, _, _)

\* canMakeTarget looking in the memo only, as the variant at lines 296-298 does
canMakeTargetBodyMemoOnly(numbers, target, memo, gc, depth) ==
  LET key == CacheKey(numbers, target)
  IN IF MapHas(memo, key)
       THEN [result |-> memo[key], threw |-> FALSE, memo |-> memo, gc |-> gc, log |-> <<>>]
     ELSE IF Len(numbers) = 1
       THEN LET result == CloseTo(numbers[1], target)
            IN [result |-> result, threw |-> FALSE,
                memo |-> MapSet(memo, key, result),
                gc |-> MapSet(gc, key, result), log |-> <<>>]
     ELSE LET s == TryCalls(LoopCalls(numbers, 1, 1), 1, target, memo, gc, depth + 1)
          IN [result |-> s.found, threw |-> FALSE,
              memo |-> MapSet(s.memo, key, s.found),
              gc |-> MapSet(s.gc, key, s.found), log |-> s.log]

\* the body of canMakeTarget; memo and gc are the two caches as the call finds them
canMakeTargetBody(numbers, target, memo, gc, depth) ==
  LET key == CacheKey(numbers, target)
  IN IF MapHas(gc, key)
       THEN [result |-> gc[key], threw |-> FALSE, memo |-> memo, gc |-> gc, log |-> <<>>]
     ELSE IF MapHas(memo, key)
       THEN [result |-> memo[key], threw |-> FALSE, memo |-> memo, gc |-> gc, log |-> <<>>]
     ELSE IF Len(numbers) = 1
       THEN LET result == CloseTo(numbers[1], target)
            IN [result |-> result, threw |-> FALSE,
                memo |-> MapSet(memo, key, result),
                gc |-> MapSet(gc, key, result), log |-> <<>>]
     ELSE LET s == TryCalls(LoopCalls(numbers, 1, 1), 1, target, memo, gc, depth + 1)
          IN [result |-> s.found, threw |-> FALSE,
              memo |-> MapSet(s.memo, key, s.found),
              gc |-> MapSet(s.gc, key, s.found), log |-> s.log]

\* canMakeTarget(numbers, target, memo), with the record of each call made
canMakeTarget(numbers, target, memo, gc, depth) ==
  LET out == canMakeTargetBody(numbers, target, memo, gc, depth)
  IN [out EXCEPT !.log = <<Observed(numbers, target, memo, gc, depth, out)>> \o out.log]

\* the recursive calls of the loops, one after the other, until one returns true
TryCalls(calls, k, target, memo, gc, depth) ==
  IF k > Len(calls) THEN [found |-> FALSE, memo |-> memo, gc |-> gc, log |-> <<>>]
  ELSE LET r == canMakeTarget(calls[k], target, memo, gc, depth)
       IN IF r.result THEN [found |-> TRUE, memo |-> r.memo, gc |-> r.gc, log |-> r.log]
          ELSE LET s == TryCalls(calls, k + 1, target, r.memo, r.gc, depth)
               IN [s EXCEPT !.log = r.log \o s.log]

(***************************************************************************)
(* The cache file and its two formats                                      *)
(*                                                                         *)
(* A file is missing, or holds bytes.  "object" is the gzip of             *)
(* JSON.stringify(Object.fromEntries(map)) (saveCache); "lines" is the     *)
(* complete gzip stream of one JSON.stringify([key, val]) + "\n" per entry *)
(* (saveCacheStream); "empty" is a file truncated to no bytes and          *)
(* "partial" a file holding only the beginning of a gzip stream.           *)
(***************************************************************************)
NoFile == [kind |-> "missing", map |-> EmptyMap]

ObjectFile(m) == [kind |-> "object", map |-> m]

LinesFile(m) == [kind |-> "lines", map |-> m]

EmptyFile == [kind |-> "empty", map |-> EmptyMap]

PartialFile == [kind |-> "partial", map |-> EmptyMap]

\* fs.existsSync(cacheFile)
existsSync(file) == file.kind # "missing"

\* new Map(Object.entries(JSON.parse(zlib.gunzipSync(fs.readFileSync(cacheFile))
\* .toString("utf8")))): ok is false when one of the calls throws
ReadStore(file) ==
  IF file.kind = "object" THEN [ok |-> TRUE, map |-> file.map]
  ELSE IF file.kind = "lines" /\ Cardinality(DOMAIN file.map) = 1
    \* a single line parses as the array [key, val], whose entries are "0" and "1"
    THEN LET k == CHOOSE k \in DOMAIN file.map : TRUE
         IN [ok |-> TRUE, map |-> MapSet(MapSet(EmptyMap, <<48>>, k), <<49>>, file.map[k])]
  \* gunzipSync throws on "empty" and "partial", JSON.parse on several lines
  ELSE [ok |-> FALSE, map |-> EmptyMap]

\* loadCache leaving globalCache as it was: the file's entries are not taken in
loadCacheKeepsStore(file, gc) ==
  IF ~existsSync(file) THEN [aborted |-> FALSE, cache |-> gc, msgs |-> <<>>]
  ELSE LET r == ReadStore(file)
       IN IF r.ok THEN [aborted |-> FALSE, cache |-> gc, msgs |-> <<"loaded">>]
          ELSE [aborted |-> FALSE, cache |-> gc, msgs |-> <<"loadWarn">>]

\* loadCache without its try/catch: a failed read ends the process
loadCacheNoCatch(file, gc) ==
  IF ~existsSync(file) THEN [aborted |-> FALSE, cache |-> gc, msgs |-> <<>>]
  ELSE LET r == ReadStore(file)
       IN IF r.ok THEN [aborted |-> FALSE, cache |-> r.map, msgs |-> <<"loaded">>]
          ELSE [aborted |-> TRUE, cache |-> gc, msgs |-> <<>>]

\* loadCache (lines 32-43): the store it leaves in globalCache and what it prints
loadCache(file, gc) ==
  IF ~existsSync(file) THEN [aborted |-> FALSE, cache |-> gc, msgs |-> <<>>]
  ELSE LET r == ReadStore(file)
       IN IF r.ok THEN [aborted |-> FALSE, cache |-> r.map, msgs |-> <<"loaded">>]
          ELSE [aborted |-> FALSE, cache |-> gc, msgs |-> <<"loadWarn">>]

\* for (const [k, v] of globalCache) existing.set(k, v)
Merge(existing, gc) ==
  [k \in (DOMAIN existing) \cup (DOMAIN gc) |-> IF k \in DOMAIN gc THEN gc[k] ELSE existing[k]]

\* the outcomes of fs.writeFileSync(cacheFile, compressed): written in full, or an
\* error before the file is opened, after it is truncated, or part way through
WriteOutcomes == {"ok", "openFail", "truncated", "partial"}

\* saveCache without the re-read and merge, as the variant at lines 431-441 has
\* it: the store in memory is written whatever the file holds
saveCacheNoMerge(file, gc, outcome) ==
  IF outcome = "ok" THEN [file |-> ObjectFile(gc), msgs |-> <<"saved">>]
  ELSE IF outcome = "openFail" THEN [file |-> file, msgs |-> <<"saveFailed:write">>]
  ELSE IF outcome = "truncated" THEN [file |-> EmptyFile, msgs |-> <<"saveFailed:write">>]
  ELSE [file |-> PartialFile, msgs |-> <<"saveFailed:write">>]

\* saveCache (lines 45-71): the file it leaves and what it prints
saveCache(file, gc, outcome) ==
  LET r == ReadStore(file)
  IN IF existsSync(file) /\ ~r.ok THEN [file |-> file, msgs |-> <<"saveFailed:read">>]
     ELSE LET existing == Merge(IF existsSync(file) THEN r.map ELSE EmptyMap, gc)
              merging == IF existsSync(file) THEN <<"merging">> ELSE <<>>
          IN IF outcome = "ok"
               THEN [file |-> ObjectFile(existing), msgs |-> merging \o <<"saved">>]
             ELSE IF outcome = "openFail"
               THEN [file |-> file, msgs |-> merging \o <<"saveFailed:write">>]
             ELSE IF outcome = "truncated"
               THEN [file |-> EmptyFile, msgs |-> merging \o <<"saveFailed:write">>]
             ELSE [file |-> PartialFile, msgs |-> merging \o <<"saveFailed:write">>]

\* the synchronous part of saveCacheStream (lines 73-130): whether the streams
\* were set up, the merged store written to the compressor, and what it prints
saveCacheStream(file, gc) ==
  LET r == ReadStore(file)
  IN IF existsSync(file) /\ ~r.ok
       THEN [started |-> FALSE, existing |-> EmptyMap, msgs |-> <<"streamMergeFailed">>]
     ELSE [started |-> TRUE,
           existing |-> Merge(IF existsSync(file) THEN r.map ELSE EmptyMap, gc),
           msgs |-> (IF existsSync(file) THEN <<"merging">> ELSE <<>>) \o <<"streamSaving">>]

(***************************************************************************)
(* The run                                                                 *)
(***************************************************************************)
\* allTargets (lines 13-23)
allTargets ==
  << <<3, 5, 7>>, <<11, 13, 17>>, <<19, 23, 29>>, <<31, 37, 41>>, <<43, 47, 53>>,
     <<59, 61, 67>>, <<71, 73, 79>>, <<83, 89, 97>>, <<101, 103, 107>> >>

VARIABLES
  pc,                \* where the process is: load, roll, target, save, stream, ended
  run,               \* the number of the process run
  trials, xMin, xMax, numTargetSets,   \* the arguments of simulateDiceTargets
  cacheFile,         \* the file at the path cacheFile
  globalCache,       \* the persistent store, in memory
  ts, x, t,          \* the loops over target sets, dice counts and trials
  rolls,             \* the dice of the current trial
  ti,                \* the index of the next target of the current trial
  successCount,
  results,
  lastCall,          \* the canMakeTarget call the latest step made, if any
  console,           \* what the run has printed
  gzip,              \* the compressor of the streaming save
  out,               \* the file write stream of the streaming save
  exited             \* how the process ended: "no", "natural", "exit0", "exit1", "crash"

vars == <<pc, run, trials, xMin, xMax, numTargetSets, cacheFile, globalCache, ts, x, t, rolls, ti,
          successCount, results, lastCall, console, gzip, out, exited>>

\* allTargets.slice(0, numTargetSets)
targetsList == SubSeq(allTargets, 1, numTargetSets)

NoCall == [called |-> FALSE, numbers |-> <<>>, target |-> 0, gcBefore |-> EmptyMap,
           result |-> FALSE, threw |-> FALSE, gcAfter |-> EmptyMap, log |-> <<>>]

NoGzip == [created |-> FALSE, written |-> 0, total |-> 0, ended |-> FALSE,
           drained |-> FALSE, existing |-> EmptyMap]

NoOut == [state |-> "none", flushed |-> "none", endCalled |-> FALSE]

\* the dice one run rolls: for each target set and dice count, trials rolls
RECURSIVE SumTo(_, _)
SumTo(lo, hi) == IF lo > hi THEN 0 ELSE lo + SumTo(lo + 1, hi)

Rolled(n, lo, hi, sets) == sets * n * SumTo(lo, hi)

\* the arguments a run is called with
Arguments ==
  {a \in [trials : 1..MaxRolled, xMin : 0..MaxDice, xMax : 0..MaxDice,
          numTargetSets : 1..MaxRolled] :
     /\ a.xMin <= a.xMax
     /\ a.numTargetSets <= Len(allTargets)
     /\ Rolled(a.trials, a.xMin, a.xMax, a.numTargetSets) <= MaxRolled}

\* the first process starts: no cache file yet, nothing loaded (lines 25-30)
Init ==
  /\ \E a \in Arguments :
       /\ trials = a.trials
       /\ xMin = a.xMin
       /\ xMax = a.xMax
       /\ numTargetSets = a.numTargetSets
       /\ x = a.xMin
  /\ pc = "load"
  /\ run = 1
  /\ cacheFile = NoFile
  /\ globalCache = EmptyMap
  /\ ts = 1
  /\ t = 0
  /\ rolls = <<>>
  /\ ti = 1
  /\ successCount = 0
  /\ results = EmptyMap
  /\ lastCall = NoCall
  /\ console = <<>>
  /\ gzip = NoGzip
  /\ out = NoOut
  /\ exited = "no"

\* loadCache() at line 132, then the start of the simulation
LoadCache ==
  /\ pc = "load"
  /\ LET r == loadCache(cacheFile, globalCache)
     IN /\ globalCache' = r.cache
        /\ console' = console \o r.msgs \o (IF r.aborted THEN <<>> ELSE <<"starting">>)
        /\ pc' = IF r.aborted THEN "ended" ELSE "roll"
        /\ exited' = IF r.aborted THEN "crash" ELSE exited
  /\ UNCHANGED <<run, trials, xMin, xMax, numTargetSets, cacheFile, ts, x, t, rolls,
                 ti, successCount, results, lastCall, gzip, out>>

\* rollDice(x) (lines 134-136, 190-192)
RollDice ==
  /\ pc = "roll"
  /\ \E r \in [1..x -> Faces] : rolls' = r
  /\ ti' = 1
  /\ lastCall' = NoCall
  /\ pc' = "target"
  /\ UNCHANGED <<run, trials, xMin, xMax, numTargetSets, cacheFile, globalCache, ts,
                 x, t, successCount, results, console, gzip, out, exited>>

\* one pass of the loop over the targets of a trial (lines 194-208) and, when it is
\* the trial's last, the end of the trial and of the loops around it (lines 210-220)
TargetStep ==
  /\ pc = "target"
  /\ LET targets == targetsList[ts]
         target == targets[ti]
         numbers == [i \in 1..Len(rolls) |-> Whole(rolls[i])]
         key == CacheKey(numbers, target)
         hit == MapHas(globalCache, key)
         r == canMakeTarget(numbers, target, EmptyMap, globalCache, 0)
         successThisTrial == IF hit THEN globalCache[key] ELSE r.result
         trialOver == successThisTrial \/ ti = Len(targets)
         count == successCount + (IF successThisTrial THEN 1 ELSE 0)
     IN /\ globalCache' = IF hit THEN globalCache ELSE MapSet(r.gc, key, r.result)
        /\ lastCall' = IF hit THEN NoCall
                       ELSE [called |-> TRUE, numbers |-> numbers, target |-> target,
                             gcBefore |-> globalCache, result |-> r.result,
                             threw |-> r.threw, gcAfter |-> r.gc, log |-> r.log]
        /\ IF ~trialOver
             THEN /\ ti' = ti + 1
                  /\ UNCHANGED <<pc, ts, x, t, successCount, results, console>>
           ELSE IF t + 1 < trials
             THEN /\ t' = t + 1
                  /\ successCount' = count
                  /\ pc' = "roll"
                  /\ UNCHANGED <<ts, x, ti, results, console>>
           ELSE /\ results' = MapSet(results, <<ts, x>>, Num(count * 100, trials))
                /\ successCount' = 0
                /\ t' = 0
                /\ UNCHANGED ti
                /\ IF x < xMax
                     THEN x' = x + 1 /\ pc' = "roll" /\ UNCHANGED <<ts, console>>
                   ELSE IF ts < Len(targetsList)
                     THEN ts' = ts + 1 /\ x' = xMin /\ pc' = "roll" /\ UNCHANGED console
                   ELSE pc' = "save" /\ console' = console \o <<"complete">>
                          /\ UNCHANGED <<ts, x>>
  /\ UNCHANGED <<run, trials, xMin, xMax, numTargetSets, cacheFile, rolls, gzip, out, exited>>

\* globalCache.size < 4_000_000 (line 226)
SmallCache == Cardinality(DOMAIN globalCache) < StreamThreshold

\* saveCache() (line 227), the table (lines 234-256) and the end of the script
SaveSmall ==
  /\ pc = "save"
  /\ SmallCache
  /\ \E outcome \in WriteOutcomes :
       LET s == saveCache(cacheFile, globalCache, outcome)
       IN /\ cacheFile' = s.file
          /\ console' = console \o s.msgs \o <<"table">>
  /\ pc' = "ended"
  /\ exited' = "natural"
  /\ lastCall' = NoCall
  /\ UNCHANGED <<run, trials, xMin, xMax, numTargetSets, globalCache, ts, x, t, rolls,
                 ti, successCount, results, gzip, out>>

\* saveCacheStream() (lines 229-230) up to its return, the table, and the end of
\* the script; the streams it set up keep the process alive
SaveStream ==
  /\ pc = "save"
  /\ ~SmallCache
  /\ LET s == saveCacheStream(cacheFile, globalCache)
     IN /\ console' = console \o <<"tooLarge">> \o s.msgs \o <<"table">>
        /\ IF s.started
             THEN /\ gzip' = [created |-> TRUE,
                              written |-> Cardinality(DOMAIN s.existing),
                              total |-> Cardinality(DOMAIN s.existing),
                              ended |-> TRUE, drained |-> FALSE, existing |-> s.existing]
                  /\ out' = [state |-> "opening", flushed |-> "none", endCalled |-> FALSE]
                  /\ pc' = "stream"
                  /\ UNCHANGED exited
           ELSE /\ pc' = "ended"
                /\ exited' = "natural"
                /\ UNCHANGED <<gzip, out>>
  /\ lastCall' = NoCall
  /\ UNCHANGED <<run, trials, xMin, xMax, numTargetSets, cacheFile, globalCache, ts, x,
                 t, rolls, ti, successCount, results>>

driverVars == <<run, trials, xMin, xMax, numTargetSets, globalCache, ts, x, t, rolls,
                ti, successCount, results, lastCall>>

\* fs.createWriteStream(cacheFile) (line 95) opens the file, which truncates it
OutOpen ==
  /\ pc = "stream"
  /\ out.state = "opening"
  /\ out' = [out EXCEPT !.state = "open"]
  /\ cacheFile' = EmptyFile
  /\ UNCHANGED <<driverVars, pc, console, gzip, exited>>

\* out.on("error") (lines 123-126): the file cannot be opened or a write fails
OutError ==
  /\ pc = "stream"
  /\ \/ out.state = "opening"
     \/ out.state = "open" /\ out.flushed # "all"
  /\ out' = [out EXCEPT !.state = "error"]
  /\ console' = console \o <<"streamFailed">>
  /\ exited' = "exit1"
  /\ pc' = "ended"
  /\ UNCHANGED <<driverVars, cacheFile, gzip>>

\* gzip.on("end") (line 113) and the pipe (line 96): the compressor's output has
\* all been handed to the file stream, which is ended
GzipEnd ==
  /\ pc = "stream"
  /\ gzip.ended
  /\ ~gzip.drained
  /\ gzip' = [gzip EXCEPT !.drained = TRUE]
  /\ out' = [out EXCEPT !.endCalled = TRUE]
  /\ UNCHANGED <<driverVars, pc, cacheFile, console, exited>>

\* the file stream writes a first part of the compressed data to the file
FlushSome ==
  /\ pc = "stream"
  /\ out.state = "open"
  /\ out.flushed = "none"
  /\ out' = [out EXCEPT !.flushed = "some"]
  /\ cacheFile' = PartialFile
  /\ UNCHANGED <<driverVars, pc, console, gzip, exited>>

\* the file stream writes the rest of the compressed data to the file
FlushAll ==
  /\ pc = "stream"
  /\ out.state = "open"
  /\ out.flushed # "all"
  /\ gzip.drained
  /\ out' = [out EXCEPT !.flushed = "all"]
  /\ cacheFile' = LinesFile(gzip.existing)
  /\ UNCHANGED <<driverVars, pc, console, gzip, exited>>

\* out.on("finish") (lines 114-121): the file stream was ended and has flushed;
\* the handler prints and calls out.close
OutFinish ==
  /\ pc = "stream"
  /\ out.state = "open"
  /\ out.endCalled
  /\ out.flushed = "all"
  /\ out' = [out EXCEPT !.state = "closing"]
  /\ console' = console \o <<"streamSaved">>
  /\ UNCHANGED <<driverVars, pc, cacheFile, gzip, exited>>

\* process.exit(0) moved to the handler of the compressor's "end"
ExitOnGzipEnd == gzip.drained

\* when process.exit(0) runs: in the callback of out.close (line 120)
ExitReady == out.state = "closing"

\* process.exit(0) (line 120)
ExitOk ==
  /\ pc = "stream"
  /\ ExitReady
  /\ exited' = "exit0"
  /\ pc' = "ended"
  /\ UNCHANGED <<driverVars, cacheFile, console, gzip, out>>

\* the program is started again, against the file the earlier run left
Restart ==
  /\ pc = "ended"
  /\ run < MaxRuns
  /\ pc' = "load"
  /\ run' = run + 1
  /\ globalCache' = EmptyMap
  /\ ts' = 1
  /\ x' = xMin
  /\ t' = 0
  /\ rolls' = <<>>
  /\ ti' = 1
  /\ successCount' = 0
  /\ results' = EmptyMap
  /\ lastCall' = NoCall
  /\ console' = <<>>
  /\ gzip' = NoGzip
  /\ out' = NoOut
  /\ exited' = "no"
  /\ UNCHANGED <<trials, xMin, xMax, numTargetSets, cacheFile>>

Next ==
  \/ LoadCache
  \/ RollDice
  \/ TargetStep
  \/ SaveSmall
  \/ SaveStream
  \/ OutOpen
  \/ OutError
  \/ GzipEnd
  \/ FlushSome
  \/ FlushAll
  \/ OutFinish
  \/ ExitOk
  \/ Restart

Spec == Init /\ [][Next]_vars

\* every step of a run but TargetStep
OtherSteps ==
  \/ LoadCache
  \/ RollDice
  \/ SaveSmall
  \/ SaveStream
  \/ OutOpen
  \/ OutError
  \/ GzipEnd
  \/ FlushSome
  \/ FlushAll
  \/ OutFinish
  \/ ExitOk

\* The script runs on and the event loop delivers the pending events: weak
\* fairness of Next. TargetStep is enabled exactly when pc = "target" and always
\* changes the state, so its fairness is written out without ENABLED.
FairSpec ==
  /\ Spec
  /\ WF_vars(OtherSteps)
  /\ ([]<>(pc # "target") \/ []<><<pc = "target">>_vars)

(***************************************************************************)
(* Reachability by iterated pairwise reduction, as the claims state it     *)
(***************************************************************************)
\* |v - tg| < 1e-9, for a finite v = n/d: |n - tg*d| * 10^9 < d
WithinTolerance(v, tg) ==
  LET diff == Abs(v[1] - tg * v[2])
  IN diff = 0 \/ (diff <= v[2] \div 1000000000 /\ diff * 1000000000 < v[2])

\* the values that may replace the pair (a, b)
Candidates(a, b) ==
  {Add(a, b), Sub(a, b), Sub(b, a), Mul(a, b)}
    \cup (IF b # <<0, 1>> THEN {Div(a, b)} ELSE {})
    \cup (IF a # <<0, 1>> THEN {Div(b, a)} ELSE {})

\* M without its positions i and j
Without(M, i, j) ==
  LET keep == {k \in 1..Len(M) : k # i /\ k # j}
      pos(n) == CHOOSE k \in keep : Cardinality({m \in keep : m < k}) = n - 1
  IN [n \in 1..Cardinality(keep) |-> M[pos(n)]]

RECURSIVE Reachable(_, _)
Reachable(M, tg) ==
  IF Len(M) = 1 THEN WithinTolerance(M[1], tg)
  ELSE \E i \in 1..Len(M) : \E j \in (1..Len(M)) \ {i} :
         \E v \in Candidates(M[i], M[j]) : Reachable(Without(M, i, j) \o <<v>>, tg)

\* the sequences that are M in another order
Reorderings(M) ==
  LET n == Len(M)
      bij == {f \in [1..n -> 1..n] : \A a, b \in 1..n : a # b => f[a] # f[b]}
  IN {[k \in 1..n |-> M[f[k]]] : f \in bij}

\* a < b as numbers
NumLess(a, b) == a[1] * b[2] < b[1] * a[2]

\* whether the elements of M ascend by value
Ascending(M) == \A k \in 1..(Len(M) - 1) : ~NumLess(M[k + 1], M[k])

\* the key of (M, tg) whose elements are listed in ascending numeric order
NumericKey(M, tg) ==
  LET sorted == CHOOSE p \in Reorderings(M) : Ascending(p)
  IN Join([k \in 1..Len(M) |-> NumStr(sorted[k])]) \o <<124>> \o NumStr(Whole(tg))

(***************************************************************************)
(* The claims                                                              *)
(***************************************************************************)
\* the calls (the top-level one and those it made) of the latest step
Calls == {lastCall.log[k] : k \in 1..Len(lastCall.log)}

\* C1: with an empty persistent store and a fresh memo, canMakeTarget(M, t) on a
\* non-empty M returns true exactly when t is reachable from M by iterated
\* pairwise reduction with the candidates a+b, a-b, b-a, a*b, a/b (b non-zero)
\* and b/a (a non-zero); no call is handed a value produced by dividing by zero.
C1_ColdCallDecidesReachability ==
  (lastCall.called /\ lastCall.gcBefore = EmptyMap /\ lastCall.numbers # <<>>) =>
    /\ ~lastCall.threw
    /\ lastCall.result = Reachable(lastCall.numbers, lastCall.target)
    /\ \A c \in Calls : \A k \in 1..Len(c.numbers) : IsFinite(c.numbers[k])

\* a cold call on three dice that returns true, having tried a pair that left a zero
C1_Witness ==
  /\ lastCall.called
  /\ lastCall.gcBefore = EmptyMap
  /\ Len(lastCall.numbers) = 3
  /\ lastCall.result
  /\ \E c \in Calls : Len(c.numbers) = 2 /\ \E k \in 1..2 : c.numbers[k] = <<0, 1>>

\* C2: canMakeTarget returns the same boolean for a multiset and for each of its
\* permutations, from whatever persistent store the earlier queries left.
C2_PermutationInvariant ==
  lastCall.called =>
    \A p \in Reorderings(lastCall.numbers) \ {lastCall.numbers} :
      canMakeTarget(p, lastCall.target, EmptyMap, lastCall.gcBefore, 0).result
        = lastCall.result

\* a call on three dice, not all equal, one of whose recursive calls is answered
\* from an entry the store held before the call
C2_Witness ==
  /\ lastCall.called
  /\ Len(lastCall.numbers) = 3
  /\ Reorderings(lastCall.numbers) # {lastCall.numbers}
  /\ \E c \in Calls : c.depth > 0 /\ c.inStore /\ MapHas(lastCall.gcBefore, c.key)

\* C3: the key of every call lists the multiset's elements in ascending numeric
\* order, joined by "," and followed by "|" and the target.
C3_KeyInNumericOrder ==
  \A c \in Calls : c.key = NumericKey(c.numbers, lastCall.target)

\* C4: a call on the empty multiset fails with an error: it returns no boolean
\* and leaves no entry for the empty multiset in the persistent store.
C4_EmptyMultisetRejected ==
  (lastCall.called /\ lastCall.numbers = <<>>) =>
    /\ lastCall.threw
    /\ ~MapHas(lastCall.gcAfter, CacheKey(<<>>, lastCall.target))

\* whether the run has printed the line
Printed(line) == \E k \in 1..Len(console) : console[k] = line

\* the entries a complete file holds
DiskStore(file) == file.map

Complete(file) == file.kind \in {"object", "lines"}

\* C5: a non-empty store saved to a fresh cache file, by saveCache or by
\* saveCacheStream, is the store loadCache reads back from that file.
C5_RoundTrip ==
  (/\ pc = "ended"
   /\ Printed("saved") \/ Printed("streamSaved")
   /\ ~Printed("merging")
   /\ globalCache # EmptyMap)
    => loadCache(cacheFile, EmptyMap).cache = globalCache

\* the part of C5 that holds: the round trip through saveCache alone
C5_RoundTripSingleWrite ==
  (pc = "ended" /\ Printed("saved") /\ ~Printed("merging") /\ globalCache # EmptyMap)
    => loadCache(cacheFile, EmptyMap).cache = globalCache

\* C6: a save onto a file that holds an earlier save's store A leaves on disk, when
\* no write fails, the union of A and the in-memory store B, B's values winning.
C6_MergeLaw ==
  /\ [][(/\ pc = "save"
         /\ cacheFile.kind \in {"missing", "object", "lines"}
         /\ ~Printed("saveFailed:write")')
          => IF pc' = "stream"
               THEN gzip'.existing = Merge(DiskStore(cacheFile), globalCache)
             ELSE /\ Complete(cacheFile')
                  /\ DiskStore(cacheFile') = Merge(DiskStore(cacheFile), globalCache)]_vars
  /\ [](exited = "exit0" => Complete(cacheFile) /\ DiskStore(cacheFile) = gzip.existing)

\* C7: the cache file is never left partly written: in every state the run can
\* stop in, a failed write or a stream error included, the file is absent or
\* holds a complete store (its prior one or the merged one).
C7_NeverPartlyWritten ==
  exited # "no" => (cacheFile.kind = "missing" \/ Complete(cacheFile))

\* the file exists and cannot be read back
Unreadable(file) == existsSync(file) /\ ~ReadStore(file).ok

\* the run has reached the save: saveCache or saveCacheStream has been called
SaveAttempted == pc \in {"stream", "ended"} /\ exited # "crash"

\* C8: loadCache never aborts the run: with the file missing, or present but
\* unreadable, the persistent store is empty afterwards, the simulation starts,
\* and the run goes on to attempt the save.
C8_LoadNeverAborts ==
  /\ [][pc = "load"
          => /\ pc' = "roll"
             /\ exited' = "no"
             /\ (~existsSync(cacheFile) \/ Unreadable(cacheFile))
                  => globalCache' = EmptyMap]_vars
  /\ [](exited # "crash")
  /\ (pc = "load" /\ Unreadable(cacheFile)) ~> SaveAttempted

\* a run that met an unreadable file, warned, and has reached its save
C8_Witness ==
  /\ Printed("loadWarn")
  /\ pc = "ended"
  /\ exited = "natural"
  /\ Printed("table")

\* C9: a call whose key is in the persistent store returns the stored value, makes
\* no recursive call and changes neither cache; so does a call whose key is only
\* in the memo; a call computes only when its key is in neither.
C9_StoreFirstThenMemo ==
  \A c \in Calls :
    /\ c.inStore => (c.result = c.stored /\ c.subcalls = 0 /\ c.unchanged)
    /\ (~c.inStore /\ c.inMemo) => (c.subcalls = 0 /\ c.unchanged)
    /\ (c.subcalls > 0 \/ ~c.unchanged) => (~c.inStore /\ ~c.inMemo)

\* a recursive call answered from an entry that a file loaded at start supplied
C9_Witness ==
  /\ Printed("loaded")
  /\ \E c \in Calls :
       /\ c.depth > 0
       /\ c.inStore
       /\ MapHas(lastCall.gcBefore, c.key)
       /\ c.result

\* C10: on the streaming path the process exits with success only after every
\* record of the merged store was written to the compressor, the compressor was
\* ended and had handed on all its output, and the file stream had finished
\* flushing; until then the process stays alive.
C10_ExitAfterStreamDone ==
  /\ exited = "exit0" =>
       /\ gzip.created
       /\ gzip.written = Cardinality(DOMAIN gzip.existing)
       /\ gzip.ended
       /\ gzip.drained
       /\ out.endCalled
       /\ out.flushed = "all"
       /\ cacheFile = LinesFile(gzip.existing)
  /\ (gzip.created /\ exited # "no") => exited \in {"exit0", "exit1"}

\* a streaming save that has run to its process.exit(0)
C10_Witness ==
  /\ exited = "exit0"
  /\ Cardinality(DOMAIN gzip.existing) >= StreamThreshold

\* the position in the log of the call that made the k-th call of the log
CallerOf(log, k) ==
  CHOOSE j \in 1..(k - 1) :
    /\ log[j].depth = log[k].depth - 1
    /\ \A m \in (j + 1)..(k - 1) : log[m].depth >= log[k].depth

\* C11: every call on a non-empty multiset terminates: each recursive call gets a
\* multiset exactly one element smaller than its caller's, a call on one element
\* makes no recursive call, and the depth of the recursion stays within the size
\* of the initial multiset.
C11_SizeDecreasesByOne ==
  (lastCall.called /\ Len(lastCall.numbers) >= 1) =>
    LET log == lastCall.log
    IN /\ Len(log) >= 1
       /\ log[1].depth = 0
       /\ log[1].numbers = lastCall.numbers
       /\ \A k \in 2..Len(log) :
            /\ log[k].depth >= 1
            /\ Len(log[k].numbers) = Len(log[CallerOf(log, k)].numbers) - 1
       /\ \A k \in 1..Len(log) :
            /\ Len(log[k].numbers) >= 1
            /\ Len(log[k].numbers) = 1 => log[k].subcalls = 0
            /\ log[k].depth + 1 <= Len(lastCall.numbers)

\* a call on three dice whose recursion went down to one-element multisets
C11_Witness ==
  /\ lastCall.called
  /\ Len(lastCall.numbers) = 3
  /\ \E c \in Calls : c.depth = 2 /\ Len(c.numbers) = 1 /\ c.subcalls = 0
  /\ \E c \in Calls : c.depth = 1 /\ c.subcalls > 0

\* the store a save would write: the file's entries merged with the store in memory
Unioned(file, gc) == Merge(IF existsSync(file) THEN DiskStore(file) ELSE EmptyMap, gc)

C12_SingleWriteAfterMerge ==
  /\ pc = "ended"
  /\ Printed("loaded")
  /\ Printed("merging")
  /\ Printed("saved")
  /\ Cardinality(DOMAIN DiskStore(cacheFile)) < StreamThreshold

\* what canMakeTarget returns when both the store and the memo are empty
ColdResult(numbers, target) ==
  canMakeTarget(numbers, target, EmptyMap, EmptyMap, 0).result

\* C13: cache transparency.  Every call of a query, whether computed or answered
\* from a cache, returns what a cold computation of its multiset and target
\* returns, and the store holds that value under the call's key afterwards; an
\* entry the driver finds in the store for the current rolls has the cold value;
\* and within a run no entry of the store changes its value or disappears.
C13_CacheTransparent ==
  /\ [](lastCall.called =>
          \A c \in Calls :
            LET cold == ColdResult(c.numbers, lastCall.target)
            IN /\ c.result = cold
               /\ MapHas(lastCall.gcAfter, c.key)
               /\ lastCall.gcAfter[c.key] = cold
               /\ MapHas(globalCache, c.key)
               /\ globalCache[c.key] = cold)
  /\ [](pc = "target" =>
          \A i \in 1..Len(targetsList[ts]) :
            LET numbers == [k \in 1..Len(rolls) |-> Whole(rolls[k])]
                target == targetsList[ts][i]
                key == CacheKey(numbers, target)
            IN MapHas(globalCache, key) => globalCache[key] = ColdResult(numbers, target))
  /\ [][pc' # "load" =>
          \A k \in DOMAIN globalCache :
            MapHas(globalCache', k) /\ globalCache'[k] = globalCache[k]]_vars

\* a query on three dice, made with a store that earlier queries and a loaded file
\* have filled, in which recursive calls were answered from the store
C13_Witness ==
  /\ lastCall.called
  /\ Printed("loaded")
  /\ Len(lastCall.numbers) = 3
  /\ lastCall.gcBefore # EmptyMap
  /\ \E c \in Calls : c.inStore /\ c.result
  /\ \E c \in Calls : c.inStore /\ ~c.result
  /\ \E c \in Calls : ~c.inStore /\ c.subcalls > 0

\* how many times the run has printed the line
Times(line) == Cardinality({k \in 1..Len(console) : console[k] = line})

\* C14: when the cache file exists at save time and cannot be read back, saveCache
\* writes nothing: the file is left as it is, so no entry of this run is
\* persisted; the failure is reported once; and the run goes on to print its
\* results and ends normally.
C14_UnreadableFileLeftAlone ==
  [][(pc = "save" /\ Unreadable(cacheFile) /\ ~Printed("tooLarge")')
       => /\ cacheFile' = cacheFile
          /\ loadCache(cacheFile', EmptyMap).cache = EmptyMap
          /\ console' = console \o <<"saveFailed:read", "table">>
          /\ Times("saveFailed:read")' = 1
          /\ ~Printed("saved")'
          /\ pc' = "ended"
          /\ exited' = "natural"
          /\ gzip' = NoGzip
          /\ out' = NoOut]_vars

\* a run that computed entries, met an unreadable file at its save, reported the
\* failure and printed its results
C14_Witness ==
  /\ pc = "ended"
  /\ exited = "natural"
  /\ Unreadable(cacheFile)
  /\ globalCache # EmptyMap
  /\ Times("saveFailed:read") = 1
  /\ Printed("table")
  /\ ~Printed("tooLarge")

=============================================================================
